---- MODULE Spec2Model ----
(***************************************************************************)
(* The request dispatch pipeline of the LLM gateway (src/src/main.rs):     *)
(* chat_completion, extract_bearer_token, log_and_respond and log_stats.   *)
(* Every inbound request is one handler task; the config store, the        *)
(* provider adapters and the telemetry sink are external collaborators     *)
(* whose answers are chosen nondeterministically.                          *)
(***************************************************************************)
EXTENDS Integers, Sequences, FiniteSets, TLC

\* Number of inbound requests handled (each by its own handler task).
MaxRequests == 1
Reqs == 1..MaxRequests
\* Values Utc::now().timestamp() may yield.
Timestamps == {1700000000, 1700000001}

\* Rust Option<T>.
None == [some |-> FALSE]
Some(v) == [some |-> TRUE, val |-> v]

\* Rust Result<T, E>.
Ok(v) == [ok |-> TRUE, val |-> v]
Err(e) == [ok |-> FALSE, err |-> e]

(***************************************************************************)
(* Inputs of a request: the Authorization header and the JSON payload.     *)
(***************************************************************************)
\* A header value: its bytes, and whether HeaderValue::to_str accepts them
\* (visible ASCII only).
HeaderValue(s, vis) == [value |-> s, visible |-> vis]

AuthHeaders ==
    { None,
      Some(HeaderValue("Bearer tok_abc", TRUE)),
      Some(HeaderValue("Bearer ", TRUE)),
      Some(HeaderValue("", TRUE)),
      Some(HeaderValue("bearer tok_abc", TRUE)),
      Some(HeaderValue("Basic tok_abc", TRUE)),
      Some(HeaderValue("Bearer", TRUE)),
      Some(HeaderValue("Bearer tok_abc", FALSE)) }

\* JSON payloads (serde_json::Value), as records of their top-level fields.
Payloads ==
    { [messages |-> <<"hi">>],
      [prompt |-> "hi"] }

\* serde_json::from_value::<OaiChatCompletionRequest>: the schema requires
\* the ordered sequence of messages.
FromValue(payload) ==
    IF "messages" \in DOMAIN payload
    THEN Ok([messages |-> payload.messages])
    ELSE Err([kind |-> "serde", text |-> "missing field messages"])

(***************************************************************************)
(* Answers of the external collaborators.                                  *)
(***************************************************************************)
SelectedNames == {"claude", "openai", "jamba", "mamba", "Claude", "open"}
CredentialKeys == {"claude", "openai", "jamba"}

\* llm_configs: a map from provider name to its credentials.
LlmConfigs(keys) == [k \in keys |-> [api_key |-> "sk-" \o k]]

CustomerConfigs ==
    { [selected_llm_name |-> n, llm_configs |-> LlmConfigs(ks)] :
        n \in SelectedNames,
        ks \in {CredentialKeys, {"openai"}} }

\* get_customer_configs: Result<Option<CustomerConfig>, Error>.
StoreResults ==
    { Err([kind |-> "firestore", text |-> "store unavailable"]), Ok(None) } \cup { Ok(Some(c)) : c \in CustomerConfigs }

ChatResponses ==
    { [model |-> "gpt-4", choices |-> <<"hello">>,
       usage |-> Some([prompt_tokens |-> 3, completion_tokens |-> 5, total_tokens |-> 8])],
      [model |-> "claude-3", choices |-> <<"hello">>, usage |-> None] }

\* LLMClient::chat: Result<OaiChatCompletionResponse, Error>.
ChatResults ==
    { Ok(resp) : resp \in ChatResponses }
        \cup { Err([kind |-> "upstream", text |-> "upstream rejected the request"]) }

\* How long the provider took to answer, in milliseconds, with each answer.
ChatOutcomes ==
    { [result |-> res,
       elapsed_ms |-> IF res.ok THEN (IF res.val.usage.some THEN 120 ELSE 0) ELSE 30000] :
        res \in ChatResults }

\* Display::to_string of an error value.
ErrorToString(e) == e.text

(***************************************************************************)
(* Pure functions of main.rs.                                              *)
(***************************************************************************)
\* str::starts_with.
StartsWith(s, prefix) ==
    /\ Len(s) >= Len(prefix)
    /\ SubSeq(s, 1, Len(prefix)) = prefix

\* extract_bearer_token without the starts_with("Bearer ") test.
extract_bearer_token_any_scheme(auth_header) ==
    IF auth_header.some
    THEN IF auth_header.val.visible
         THEN Some(SubSeq(auth_header.val.value, 8, Len(auth_header.val.value)))
         ELSE None
    ELSE None

\* extract_bearer_token slicing from the space of "Bearer " on.
extract_bearer_token_off_by_one(auth_header) ==
    IF auth_header.some
    THEN IF auth_header.val.visible
         THEN IF StartsWith(auth_header.val.value, "Bearer ")
              THEN Some(SubSeq(auth_header.val.value, 7, Len(auth_header.val.value)))
              ELSE None
         ELSE None
    ELSE None

\* extract_bearer_token (lines 36-45).
extract_bearer_token(auth_header) ==
    IF auth_header.some
    THEN IF auth_header.val.visible
         THEN IF StartsWith(auth_header.val.value, "Bearer ")
              THEN Some(SubSeq(auth_header.val.value, 8, Len(auth_header.val.value)))
              ELSE None
         ELSE None
    ELSE None

\* serde_json::to_string / to_value of a typed value: the JSON document of it.
ToJson(v) == [json |-> v]
JsonNull == [json_null |-> TRUE]

\* `if let Some(x) = o { builder.field(to_string(x)) }`.
OptJson(o) == IF o.some THEN Some(ToJson(o.val)) ELSE None

\* response.usage of an optional response (lines 73-77).
ResponseUsage(response) == IF response.some THEN response.val.usage ELSE None

\* log_stats without its `if let Some(request)` block (lines 65-67).
RequestLog_request_dropped(id, timestamp, felafax_token, request, response, llm_name, latency, error) ==
    LET usage == ResponseUsage(response) IN
    [ id                |-> id,
      timestamp         |-> timestamp,
      customer_id       |-> felafax_token,
      request           |-> None,
      llm_name          |-> llm_name,
      response          |-> OptJson(response),
      llm_model         |-> IF response.some THEN Some(ToJson(response.val.model)) ELSE None,
      prompt_tokens     |-> IF usage.some THEN Some(usage.val.prompt_tokens) ELSE None,
      completion_tokens |-> IF usage.some THEN Some(usage.val.completion_tokens) ELSE None,
      total_tokens      |-> IF usage.some THEN Some(usage.val.total_tokens) ELSE None,
      total_latency     |-> latency,
      error             |-> error ]

\* log_stats without its `if let Some(error)` block (lines 85-87).
RequestLog_error_dropped(id, timestamp, felafax_token, request, response, llm_name, latency, error) ==
    LET usage == ResponseUsage(response) IN
    [ id                |-> id,
      timestamp         |-> timestamp,
      customer_id       |-> felafax_token,
      request           |-> OptJson(request),
      llm_name          |-> llm_name,
      response          |-> OptJson(response),
      llm_model         |-> IF response.some THEN Some(ToJson(response.val.model)) ELSE None,
      prompt_tokens     |-> IF usage.some THEN Some(usage.val.prompt_tokens) ELSE None,
      completion_tokens |-> IF usage.some THEN Some(usage.val.completion_tokens) ELSE None,
      total_tokens      |-> IF usage.some THEN Some(usage.val.total_tokens) ELSE None,
      total_latency     |-> latency,
      error             |-> None ]

\* The RequestLog that log_stats builds (lines 59-89); fields the builder was
\* not given stay absent.
RequestLog(id, timestamp, felafax_token, request, response, llm_name, latency, error) ==
    LET usage == ResponseUsage(response) IN
    [ id                |-> id,
      timestamp         |-> timestamp,
      customer_id       |-> felafax_token,
      request           |-> OptJson(request),
      llm_name          |-> llm_name,
      response          |-> OptJson(response),
      llm_model         |-> IF response.some THEN Some(ToJson(response.val.model)) ELSE None,
      prompt_tokens     |-> IF usage.some THEN Some(usage.val.prompt_tokens) ELSE None,
      completion_tokens |-> IF usage.some THEN Some(usage.val.completion_tokens) ELSE None,
      total_tokens      |-> IF usage.some THEN Some(usage.val.total_tokens) ELSE None,
      total_latency     |-> latency,
      error             |-> error ]

\* log_and_respond wrapping the provider response in an envelope.
HttpResponse_enveloped(status_code, response, error) ==
    IF error.some
    THEN [status |-> status_code, body |-> [error |-> error.val]]
    ELSE [status |-> status_code,
          body |-> [response |-> IF response.some THEN ToJson(response.val) ELSE JsonNull]]

\* The (status, Json body) pair log_and_respond returns (lines 124-128).
HttpResponse(status_code, response, error) ==
    IF error.some
    THEN [status |-> status_code, body |-> [error |-> error.val]]
    ELSE [status |-> status_code,
          body |-> IF response.some THEN ToJson(response.val) ELSE JsonNull]

\* The provider names that have an arm in the match on selected_llm_name.
SupportedProviders == {"claude", "openai", "jamba"}

\* The match with the "jamba" arm copied from the "openai" arm unchanged.
MatchProvider_jamba_arm_copied(selected_llm_name) ==
    CASE selected_llm_name = "claude" -> Some([adapter |-> "Claude", key |-> "claude"])
      [] selected_llm_name = "openai" -> Some([adapter |-> "OpenAI", key |-> "openai"])
      [] selected_llm_name = "jamba"  -> Some([adapter |-> "OpenAI", key |-> "openai"])
      [] OTHER -> None

\* The match with its `_` arm falling back to the OpenAI adapter.
MatchProvider_default_openai(selected_llm_name) ==
    CASE selected_llm_name = "claude" -> Some([adapter |-> "Claude", key |-> "claude"])
      [] selected_llm_name = "jamba"  -> Some([adapter |-> "Mamba", key |-> "jamba"])
      [] OTHER -> Some([adapter |-> "OpenAI", key |-> "openai"])

\* The match on selected_llm_name (lines 197-245): the adapter type and the
\* llm_configs key of each arm; None is the `_` arm.
MatchProvider(selected_llm_name) ==
    CASE selected_llm_name = "claude" -> Some([adapter |-> "Claude", key |-> "claude"])
      [] selected_llm_name = "openai" -> Some([adapter |-> "OpenAI", key |-> "openai"])
      [] selected_llm_name = "jamba"  -> Some([adapter |-> "Mamba", key |-> "jamba"])
      [] OTHER -> None

\* HashMap::get.
MapGet(map, key) == IF key \in DOMAIN map THEN Some(map[key]) ELSE None

StatusOk == 200
StatusBadRequest == 400
StatusUnauthorized == 401
StatusInternalServerError == 500

MsgMissingToken == "Unauthorized: Missing or invalid token."
MsgInvalidToken == "Invalid felafax token"
MsgParsePrefix == "Error while parsing request. Maybe it's not following OpenAI spec\nError: "
MsgInvalidLlm == "Invalid LLM name. Supported LLMs are: mamba, openai, claude"

(***************************************************************************)
(* State.                                                                  *)
(***************************************************************************)
VARIABLES
    pc,              \* position of each handler task
    headers,         \* the request's Authorization header
    payload,         \* the request's JSON payload
    felafax_token,   \* local of chat_completion
    customer_config, \* local of chat_completion
    request,         \* local of chat_completion
    store_calls,     \* get_customer_configs calls made, per request
    store_result,    \* what the config store answered, per request
    chat_calls,      \* provider chat calls made, per request
    chat_result,     \* what the provider answered, per request
    chat_elapsed,    \* milliseconds the provider call took, per request
    tasks,           \* telemetry tasks spawned, per request
    respond_args,    \* (status_code, response, error) held by log_and_respond
    response,        \* the HTTP response returned to the caller
    trace,           \* the steps of each handler, in order
    stderr,          \* ids of the logs reported by eprintln!, per request
    next_uuid        \* source of Uuid::new_v4

vars == << pc, headers, payload, felafax_token, customer_config, request,
           store_calls, store_result, chat_calls, chat_result, chat_elapsed, tasks,
           respond_args, response, trace, stderr, next_uuid >>

Init ==
    /\ pc = [r \in Reqs |-> "idle"]
    /\ headers = [r \in Reqs |-> None]
    /\ payload = [r \in Reqs |-> None]
    /\ felafax_token = [r \in Reqs |-> None]
    /\ customer_config = [r \in Reqs |-> None]
    /\ request = [r \in Reqs |-> None]
    /\ store_calls = [r \in Reqs |-> << >>]
    /\ store_result = [r \in Reqs |-> None]
    /\ chat_calls = [r \in Reqs |-> << >>]
    /\ chat_result = [r \in Reqs |-> None]
    /\ chat_elapsed = [r \in Reqs |-> 0]
    /\ tasks = [r \in Reqs |-> << >>]
    /\ respond_args = [r \in Reqs |-> None]
    /\ response = [r \in Reqs |-> None]
    /\ trace = [r \in Reqs |-> << >>]
    /\ stderr = [r \in Reqs |-> << >>]
    /\ next_uuid = 1

\* The router hands a POST /v1/chat/completions to chat_completion (line 324).
Receive(r) ==
    /\ pc[r] = "idle"
    /\ \E h \in AuthHeaders, p \in Payloads :
        /\ headers' = [headers EXCEPT ![r] = Some(h)]
        /\ payload' = [payload EXCEPT ![r] = Some(p)]
    /\ pc' = [pc EXCEPT ![r] = "start"]
    /\ UNCHANGED << felafax_token, customer_config, request, store_calls,
                    store_result, chat_calls, chat_result, chat_elapsed, tasks, respond_args,
                    response, trace, stderr, next_uuid >>

\* log_stats spawning one task per sink (analytics store, tenant mirror).
LogAndRespond_spawn_per_sink(r, steps, status_code, token, req, resp, llm_name, latency, error) ==
    /\ \E ts \in Timestamps :
        LET task == [log |-> RequestLog(next_uuid, ts, token, req, resp,
                                        llm_name, latency, error),
                     state |-> "pending"]
        IN tasks' = [tasks EXCEPT ![r] = @ \o << task, task >>]
    /\ next_uuid' = next_uuid + 1
    /\ respond_args' = [respond_args EXCEPT ![r] =
            Some([status_code |-> status_code, response |-> resp, error |-> error])]
    /\ trace' = [trace EXCEPT ![r] = @ \o steps \o <<"log_build", "spawn", "spawn">>]
    /\ pc' = [pc EXCEPT ![r] = "respond"]
    /\ UNCHANGED response

\* log_and_respond up to its await of log_stats (lines 100-122): log_stats
\* builds the RequestLog and spawns the telemetry task (lines 58-97).
LogAndRespond(r, steps, status_code, token, req, resp, llm_name, latency, error) ==
    /\ \E ts \in Timestamps :
        tasks' = [tasks EXCEPT ![r] = Append(@,
                    [log |-> RequestLog(next_uuid, ts, token, req, resp,
                                        llm_name, latency, error),
                     state |-> "pending"])]
    /\ next_uuid' = next_uuid + 1
    /\ respond_args' = [respond_args EXCEPT ![r] =
            Some([status_code |-> status_code, response |-> resp, error |-> error])]
    /\ trace' = [trace EXCEPT ![r] = @ \o steps \o <<"log_build", "spawn">>]
    /\ pc' = [pc EXCEPT ![r] = "respond"]
    /\ UNCHANGED response

\* Lines 136-157: extract the token; reject, or call the config store.
Authenticate(r) ==
    /\ pc[r] = "start"
    /\ LET token == extract_bearer_token(headers[r].val) IN
       IF token.some
       THEN /\ felafax_token' = [felafax_token EXCEPT ![r] = token]
            /\ store_calls' = [store_calls EXCEPT ![r] = Append(@, token.val)]
            /\ trace' = [trace EXCEPT ![r] = @ \o <<"extract", "store_call">>]
            /\ pc' = [pc EXCEPT ![r] = "resolve"]
            /\ UNCHANGED << tasks, respond_args, response, next_uuid >>
       ELSE /\ LogAndRespond(r, <<"extract">>, StatusUnauthorized, "", None, None,
                             None, 0, Some(MsgMissingToken))
            /\ UNCHANGED << felafax_token, store_calls >>
    /\ UNCHANGED << headers, payload, customer_config, request, store_result,
                    chat_calls, chat_result, chat_elapsed, stderr >>

(***************************************************************************)
(* Variants of the handler steps with a plausible slip, used to show that  *)
(* the properties below depend on the code.                                *)
(***************************************************************************)
\* StoreReturn that words the 401 after what the store answered.
StoreReturn_message_per_cause(r) ==
    /\ pc[r] = "resolve"
    /\ \E res \in StoreResults :
        /\ store_result' = [store_result EXCEPT ![r] = Some(res)]
        /\ IF res.ok /\ res.val.some
           THEN /\ customer_config' = [customer_config EXCEPT ![r] = res.val]
                /\ trace' = [trace EXCEPT ![r] = Append(@, "store_return")]
                /\ pc' = [pc EXCEPT ![r] = "parse"]
                /\ UNCHANGED << tasks, respond_args, response, next_uuid >>
           ELSE /\ LogAndRespond(r, <<"store_return">>, StatusUnauthorized,
                                 felafax_token[r].val, None, None, None, 0,
                                 IF res.ok THEN Some(MsgInvalidToken)
                                 ELSE Some("Could not verify felafax token"))
                /\ UNCHANGED customer_config
    /\ UNCHANGED << headers, payload, felafax_token, request, store_calls,
                    chat_calls, chat_result, chat_elapsed, stderr >>

\* StoreReturn that validates the body of a request it is about to reject.
StoreReturn_body_checked_first(r) ==
    /\ pc[r] = "resolve"
    /\ \E res \in StoreResults :
        /\ store_result' = [store_result EXCEPT ![r] = Some(res)]
        /\ IF res.ok /\ res.val.some
           THEN /\ customer_config' = [customer_config EXCEPT ![r] = res.val]
                /\ trace' = [trace EXCEPT ![r] = Append(@, "store_return")]
                /\ pc' = [pc EXCEPT ![r] = "parse"]
                /\ UNCHANGED << tasks, respond_args, response, next_uuid >>
           ELSE /\ LET parsed == FromValue(payload[r].val) IN
                   IF parsed.ok
                   THEN LogAndRespond(r, <<"store_return">>, StatusUnauthorized,
                                      felafax_token[r].val, None, None, None, 0,
                                      Some(MsgInvalidToken))
                   ELSE LogAndRespond(r, <<"store_return">>, StatusBadRequest,
                                      felafax_token[r].val, None, None, None, 0,
                                      Some(MsgParsePrefix \o ErrorToString(parsed.err)))
                /\ UNCHANGED customer_config
    /\ UNCHANGED << headers, payload, felafax_token, request, store_calls,
                    chat_calls, chat_result, chat_elapsed, stderr >>

\* StoreReturn that surfaces a failed config-store call as a 500.
StoreReturn_surface_store_error(r) ==
    /\ pc[r] = "resolve"
    /\ \E res \in StoreResults :
        /\ store_result' = [store_result EXCEPT ![r] = Some(res)]
        /\ IF res.ok /\ res.val.some
           THEN /\ customer_config' = [customer_config EXCEPT ![r] = res.val]
                /\ trace' = [trace EXCEPT ![r] = Append(@, "store_return")]
                /\ pc' = [pc EXCEPT ![r] = "parse"]
                /\ UNCHANGED << tasks, respond_args, response, next_uuid >>
           ELSE /\ IF res.ok
                   THEN LogAndRespond(r, <<"store_return">>, StatusUnauthorized,
                                      felafax_token[r].val, None, None, None, 0,
                                      Some(MsgInvalidToken))
                   ELSE LogAndRespond(r, <<"store_return">>, StatusInternalServerError,
                                      felafax_token[r].val, None, None, None, 0,
                                      Some(ErrorToString(res.err)))
                /\ UNCHANGED customer_config
    /\ UNCHANGED << headers, payload, felafax_token, request, store_calls,
                    chat_calls, chat_result, chat_elapsed, stderr >>

\* ParseBody that falls back to an empty request when deserializing fails.
ParseBody_default_on_error(r) ==
    /\ pc[r] = "parse"
    /\ LET parsed == FromValue(payload[r].val) IN
       request' = [request EXCEPT ![r] =
            IF parsed.ok THEN Some(parsed.val) ELSE Some([messages |-> << >>])]
    /\ trace' = [trace EXCEPT ![r] = Append(@, "parse")]
    /\ pc' = [pc EXCEPT ![r] = "dispatch"]
    /\ UNCHANGED << headers, payload, felafax_token, customer_config, store_calls,
                    store_result, chat_calls, chat_result, chat_elapsed, tasks, respond_args,
                    response, stderr, next_uuid >>

\* Lines 154-174: get_customer_configs returns; reject unless Ok(Some(config)).
StoreReturn(r) ==
    /\ pc[r] = "resolve"
    /\ \E res \in StoreResults :
        /\ store_result' = [store_result EXCEPT ![r] = Some(res)]
        /\ IF res.ok /\ res.val.some
           THEN /\ customer_config' = [customer_config EXCEPT ![r] = res.val]
                /\ trace' = [trace EXCEPT ![r] = Append(@, "store_return")]
                /\ pc' = [pc EXCEPT ![r] = "parse"]
                /\ UNCHANGED << tasks, respond_args, response, next_uuid >>
           ELSE /\ LogAndRespond(r, <<"store_return">>, StatusUnauthorized,
                                 felafax_token[r].val, None, None, None, 0,
                                 Some(MsgInvalidToken))
                /\ UNCHANGED customer_config
    /\ UNCHANGED << headers, payload, felafax_token, request, store_calls,
                    chat_calls, chat_result, chat_elapsed, stderr >>

\* Lines 176-195: deserialize the payload; reject when it fails.
ParseBody(r) ==
    /\ pc[r] = "parse"
    /\ LET parsed == FromValue(payload[r].val) IN
       IF parsed.ok
       THEN /\ request' = [request EXCEPT ![r] = Some(parsed.val)]
            /\ trace' = [trace EXCEPT ![r] = Append(@, "parse")]
            /\ pc' = [pc EXCEPT ![r] = "dispatch"]
            /\ UNCHANGED << tasks, respond_args, response, next_uuid >>
       ELSE /\ LogAndRespond(r, <<"parse">>, StatusBadRequest, felafax_token[r].val,
                             None, None, None, 0,
                             Some(MsgParsePrefix \o ErrorToString(parsed.err)))
            /\ UNCHANGED request
    /\ UNCHANGED << headers, payload, felafax_token, customer_config, store_calls,
                    store_result, chat_calls, chat_result, chat_elapsed, stderr >>

\* Lines 197-245: match the selected provider name; in a provider arm fetch
\* the api key (Option::unwrap panics when the map has no entry), construct
\* the adapter and call chat; in the `_` arm reject.
Dispatch(r) ==
    /\ pc[r] = "dispatch"
    /\ LET config == customer_config[r].val
           arm == MatchProvider(config.selected_llm_name)
       IN
       IF arm.some
       THEN LET llm_config == MapGet(config.llm_configs, arm.val.key) IN
            IF llm_config.some
            THEN /\ chat_calls' = [chat_calls EXCEPT ![r] = Append(@,
                        [adapter |-> arm.val.adapter,
                         api_key |-> llm_config.val.api_key,
                         request |-> request[r].val])]
                 /\ trace' = [trace EXCEPT ![r] = @ \o <<"match", "adapter_new", "chat_call">>]
                 /\ pc' = [pc EXCEPT ![r] = "chat"]
                 /\ UNCHANGED << tasks, respond_args, response, next_uuid >>
            ELSE /\ trace' = [trace EXCEPT ![r] = @ \o <<"match", "panic">>]
                 /\ pc' = [pc EXCEPT ![r] = "panicked"]
                 /\ UNCHANGED << chat_calls, tasks, respond_args, response, next_uuid >>
       ELSE /\ LogAndRespond(r, <<"match">>, StatusBadRequest, felafax_token[r].val,
                             request[r], None, None, 0, Some(MsgInvalidLlm))
            /\ UNCHANGED chat_calls
    /\ UNCHANGED << headers, payload, felafax_token, customer_config, request,
                    store_calls, store_result, chat_result, chat_elapsed, stderr >>

\* Lines 247-276: the provider's chat call returns.
ChatReturn(r) ==
    /\ pc[r] = "chat"
    /\ \E outcome \in ChatOutcomes :
        LET llm_response == outcome.result IN
        /\ chat_result' = [chat_result EXCEPT ![r] = Some(llm_response)]
        /\ chat_elapsed' = [chat_elapsed EXCEPT ![r] = outcome.elapsed_ms]
        /\ IF llm_response.ok
           THEN LogAndRespond(r, <<"chat_return">>, StatusOk, felafax_token[r].val,
                              request[r], Some(llm_response.val),
                              Some(customer_config[r].val.selected_llm_name), 0, None)
           ELSE LogAndRespond(r, <<"chat_return">>, StatusInternalServerError,
                              felafax_token[r].val, request[r], None,
                              Some(customer_config[r].val.selected_llm_name), 0,
                              Some(ErrorToString(llm_response.err)))
    /\ UNCHANGED << headers, payload, felafax_token, customer_config, request,
                    store_calls, store_result, chat_calls, stderr >>

\* Respond that joins the telemetry task before it constructs the response.
Respond_awaits_telemetry(r) ==
    /\ pc[r] = "respond"
    /\ \A i \in DOMAIN tasks[r] : tasks[r][i].state # "pending"
    /\ LET args == respond_args[r].val IN
       response' = [response EXCEPT ![r] =
            Some(HttpResponse(args.status_code, args.response, args.error))]
    /\ trace' = [trace EXCEPT ![r] = Append(@, "respond")]
    /\ pc' = [pc EXCEPT ![r] = "done"]
    /\ UNCHANGED << headers, payload, felafax_token, customer_config, request,
                    store_calls, store_result, chat_calls, chat_result, chat_elapsed, tasks,
                    respond_args, stderr, next_uuid >>

\* Respond that answers 500 when the telemetry write has already failed.
Respond_surface_telemetry_failure(r) ==
    /\ pc[r] = "respond"
    /\ LET args == respond_args[r].val
           failed == \E i \in DOMAIN tasks[r] : tasks[r][i].state = "failed"
       IN
       response' = [response EXCEPT ![r] =
            IF failed
            THEN Some(HttpResponse(StatusInternalServerError, None,
                                   Some("Failed to log request")))
            ELSE Some(HttpResponse(args.status_code, args.response, args.error))]
    /\ trace' = [trace EXCEPT ![r] = Append(@, "respond")]
    /\ pc' = [pc EXCEPT ![r] = "done"]
    /\ UNCHANGED << headers, payload, felafax_token, customer_config, request,
                    store_calls, store_result, chat_calls, chat_result, chat_elapsed, tasks,
                    respond_args, stderr, next_uuid >>

\* log_and_respond after log_stats returned (lines 124-128): the response is
\* constructed and chat_completion returns it.
Respond(r) ==
    /\ pc[r] = "respond"
    /\ LET args == respond_args[r].val IN
       response' = [response EXCEPT ![r] =
            Some(HttpResponse(args.status_code, args.response, args.error))]
    /\ trace' = [trace EXCEPT ![r] = Append(@, "respond")]
    /\ pc' = [pc EXCEPT ![r] = "done"]
    /\ UNCHANGED << headers, payload, felafax_token, customer_config, request,
                    store_calls, store_result, chat_calls, chat_result, chat_elapsed, tasks,
                    respond_args, stderr, next_uuid >>

\* Lines 92-97: the spawned task's RequestLog::log call succeeds.
TelemetryOk(r) ==
    /\ \E i \in DOMAIN tasks[r] :
        /\ tasks[r][i].state = "pending"
        /\ tasks' = [tasks EXCEPT ![r][i].state = "ok"]
    /\ UNCHANGED << pc, headers, payload, felafax_token, customer_config, request,
                    store_calls, store_result, chat_calls, chat_result, chat_elapsed, respond_args,
                    response, trace, stderr, next_uuid >>

\* TelemetryFail that reports the failure and leaves the task to try again.
TelemetryFail_retries(r) ==
    /\ \E i \in DOMAIN tasks[r] :
        /\ tasks[r][i].state = "pending"
        /\ Len(stderr[r]) < 2
        /\ stderr' = [stderr EXCEPT ![r] = Append(@, tasks[r][i].log.id)]
    /\ UNCHANGED << pc, headers, payload, felafax_token, customer_config, request,
                    store_calls, store_result, chat_calls, chat_result, chat_elapsed,
                    tasks, respond_args, response, trace, next_uuid >>

\* Lines 92-97: the spawned task's RequestLog::log call fails; unwrap_or_else
\* reports it with eprintln!.
TelemetryFail(r) ==
    /\ \E i \in DOMAIN tasks[r] :
        /\ tasks[r][i].state = "pending"
        /\ tasks' = [tasks EXCEPT ![r][i].state = "failed"]
        /\ stderr' = [stderr EXCEPT ![r] = Append(@, tasks[r][i].log.id)]
    /\ UNCHANGED << pc, headers, payload, felafax_token, customer_config, request,
                    store_calls, store_result, chat_calls, chat_result, chat_elapsed, respond_args,
                    response, trace, next_uuid >>

Next ==
    \E r \in Reqs :
        \/ Receive(r)
        \/ Authenticate(r)
        \/ StoreReturn(r)
        \/ ParseBody(r)
        \/ Dispatch(r)
        \/ ChatReturn(r)
        \/ Respond(r)
        \/ TelemetryOk(r)
        \/ TelemetryFail(r)

Spec == Init /\ [][Next]_vars

\* The runtime keeps polling a handler task that is ready: the steps of
\* chat_completion that wait for no collaborator are taken eventually. The
\* config store, the provider and the telemetry sink may never answer.
HandlerFairSpec ==
    /\ Spec
    /\ \A r \in Reqs :
        /\ WF_vars(Authenticate(r))
        /\ WF_vars(ParseBody(r))
        /\ WF_vars(Dispatch(r))
        /\ WF_vars(Respond(r))

\* The runtime keeps polling a spawned task and the telemetry sink answers
\* every write, with success or with an error: a pending telemetry task
\* eventually ends.
TelemetryFairSpec ==
    /\ Spec
    /\ \A r \in Reqs : WF_vars(TelemetryOk(r) \/ TelemetryFail(r))

(***************************************************************************)
(* Properties.                                                             *)
(***************************************************************************)
Received(r) == pc[r] # "idle"
Returned(r) == pc[r] = "done"
Status(r) == response[r].val.status
Body(r) == response[r].val.body

\* The header carries "Bearer " followed by a token, in readable characters.
BearerForm(h) ==
    /\ h.some
    /\ h.val.visible
    /\ \E n \in 0..Len(h.val.value) :
          h.val.value = "Bearer " \o SubSeq(h.val.value, Len(h.val.value) - n + 1,
                                            Len(h.val.value))

\* C1: a request whose Authorization header is missing or is not of the form
\* "Bearer <token>" is answered 401, and neither the config store nor any
\* provider is called for it.
C1_MalformedHeaderRejected ==
    \A r \in Reqs :
        (Received(r) /\ ~BearerForm(headers[r].val)) =>
            /\ store_calls[r] = << >>
            /\ chat_calls[r] = << >>
            /\ pc[r] \in {"start", "respond", "done"}
            /\ pc[r] = "respond" => respond_args[r].val.status_code = StatusUnauthorized
            /\ Returned(r) => Status(r) = StatusUnauthorized

C1_Witness ==
    \E r \in Reqs :
        /\ Returned(r)
        /\ headers[r].val = Some(HeaderValue("Basic tok_abc", TRUE))
        /\ Status(r) = StatusUnauthorized
        /\ store_calls[r] = << >>


\* What get_customer_configs answered for the request.
StoreNotFound(r) ==
    store_result[r].some /\ store_result[r].val.ok /\ ~store_result[r].val.val.some
StoreFailed(r) == store_result[r].some /\ ~store_result[r].val.ok
StoreResolved(r) ==
    store_result[r].some /\ store_result[r].val.ok /\ store_result[r].val.val.some

\* A RequestLog without its id and timestamp.
LogContent(l) ==
    [ customer_id |-> l.customer_id, request |-> l.request, llm_name |-> l.llm_name,
      response |-> l.response, llm_model |-> l.llm_model,
      prompt_tokens |-> l.prompt_tokens, completion_tokens |-> l.completion_tokens,
      total_tokens |-> l.total_tokens, total_latency |-> l.total_latency,
      error |-> l.error ]

\* What the caller and the telemetry sink can observe of a request.
Observable(r) ==
    [ finished |-> Returned(r),
      response |-> response[r],
      chat_calls |-> chat_calls[r],
      logs |-> [i \in DOMAIN tasks[r] |-> LogContent(tasks[r][i].log)] ]

\* The outcome of a request whose token the store did not resolve, as a
\* function of the token alone.
UnresolvedOutcome(token, finished) ==
    [ finished |-> finished,
      response |-> IF finished
                   THEN Some([status |-> 401, body |-> [error |-> "Invalid felafax token"]])
                   ELSE None,
      chat_calls |-> << >>,
      logs |-> << [ customer_id |-> token, request |-> None, llm_name |-> None,
                    response |-> None, llm_model |-> None, prompt_tokens |-> None,
                    completion_tokens |-> None, total_tokens |-> None,
                    total_latency |-> 0, error |-> Some("Invalid felafax token") ] >> ]

\* C2: for every bearer token, the store answering "not found" and the store
\* call failing give the same outcome: 401 with the same error body, no
\* provider call, and the same RequestLog apart from id and timestamp.
C2_NotFoundAndStoreErrorAlike ==
    /\ \A r \in Reqs :
        (StoreNotFound(r) \/ StoreFailed(r)) =>
            /\ pc[r] \in {"respond", "done"}
            /\ Observable(r) = UnresolvedOutcome(felafax_token[r].val, Returned(r))
    /\ \A r1, r2 \in Reqs :
        ( /\ StoreNotFound(r1)
          /\ StoreFailed(r2)
          /\ felafax_token[r1] = felafax_token[r2]
          /\ pc[r1] = pc[r2] ) => Observable(r1) = Observable(r2)

C2_Witness ==
    \E r \in Reqs :
        /\ StoreFailed(r)
        /\ Returned(r)
        /\ felafax_token[r] = Some("tok_abc")
        /\ Status(r) = StatusUnauthorized

\* C3: when the token resolved to a tenant config and the body does not
\* deserialize, the request is answered 400 and no provider chat call is
\* made, whatever provider the tenant selected.
C3_UnparseableBodyRejected ==
    \A r \in Reqs :
        (StoreResolved(r) /\ ~FromValue(payload[r].val).ok) =>
            /\ chat_calls[r] = << >>
            /\ pc[r] \in {"parse", "respond", "done"}
            /\ pc[r] = "respond" => respond_args[r].val.status_code = StatusBadRequest
            /\ Returned(r) => Status(r) = StatusBadRequest

C3_Witness ==
    \E r \in Reqs :
        /\ Returned(r)
        /\ StoreResolved(r)
        /\ customer_config[r].val.selected_llm_name = "openai"
        /\ "openai" \in DOMAIN customer_config[r].val.llm_configs
        /\ ~FromValue(payload[r].val).ok
        /\ Status(r) = StatusBadRequest
        /\ chat_calls[r] = << >>

\* C4: an authenticated request with a valid body whose selected provider
\* name is not exactly one of the supported names is answered 400, and no
\* adapter is constructed or called: there is no default provider.
C4_UnsupportedProviderRejected ==
    \A r \in Reqs :
        ( /\ request[r].some
          /\ customer_config[r].val.selected_llm_name \notin {"claude", "openai", "jamba"} ) =>
            /\ chat_calls[r] = << >>
            /\ \A i \in DOMAIN trace[r] : trace[r][i] \notin {"adapter_new", "chat_call"}
            /\ pc[r] \in {"dispatch", "respond", "done"}
            /\ pc[r] = "respond" => respond_args[r].val.status_code = StatusBadRequest
            /\ Returned(r) => Status(r) = StatusBadRequest

C4_Witness ==
    \E r \in Reqs :
        /\ Returned(r)
        /\ request[r].some
        /\ customer_config[r].val.selected_llm_name = "Claude"
        /\ customer_config[r].val.llm_configs = LlmConfigs(CredentialKeys)
        /\ Status(r) = StatusBadRequest
        /\ chat_calls[r] = << >>

\* The request passed authentication, tenant resolution and body parsing.
Parsed(r) == request[r].some
SelectedName(r) == customer_config[r].val.selected_llm_name
HasCredential(r) == SelectedName(r) \in DOMAIN customer_config[r].val.llm_configs
PastDispatch(r) == pc[r] \in {"chat", "respond", "done", "panicked"}

\* The adapter the tenant configuration names.
AdapterNamed(name) ==
    CASE name = "claude" -> "Claude"
      [] name = "openai" -> "OpenAI"
      [] name = "jamba" -> "Mamba"

\* The chat call C5 expects of a dispatched request.
MatchingChatCall(r) ==
    /\ Len(chat_calls[r]) = 1
    /\ chat_calls[r][1].adapter = AdapterNamed(SelectedName(r))
    /\ chat_calls[r][1].request = FromValue(payload[r].val).val

\* C5 as stated: every authenticated request with a valid body and a
\* supported selected provider makes exactly one chat call, to the matching
\* adapter, with the parsed request.
C5_Original ==
    \A r \in Reqs :
        (Parsed(r) /\ SelectedName(r) \in {"claude", "openai", "jamba"} /\ PastDispatch(r))
            => MatchingChatCall(r)

\* C5 (amended): every authenticated request with a valid body and a
\* supported selected provider for which the tenant's credentials map has an
\* entry makes exactly one chat call, to the adapter matching the selected
\* name and to no other, with the parsed request; before the dispatch step
\* no call was made.
C5_OneCallToMatchingAdapter ==
    \A r \in Reqs :
        (Parsed(r) /\ SelectedName(r) \in {"claude", "openai", "jamba"} /\ HasCredential(r)) =>
            /\ pc[r] \in {"dispatch", "chat", "respond", "done"}
            /\ pc[r] = "dispatch" => chat_calls[r] = << >>
            /\ PastDispatch(r) => MatchingChatCall(r)

C5_Witness ==
    \E r \in Reqs :
        /\ Returned(r)
        /\ Parsed(r)
        /\ SelectedName(r) = "jamba"
        /\ HasCredential(r)
        /\ Len(chat_calls[r]) = 1
        /\ chat_calls[r][1].adapter = "Mamba"
        /\ chat_calls[r][1].request = [messages |-> <<"hi">>]

ChatOk(r) == chat_result[r].some /\ chat_result[r].val.ok
ChatErr(r) == chat_result[r].some /\ ~chat_result[r].val.ok

\* C6: when the provider's chat call returns Ok(response), the request is
\* answered 200 with that response as its body, unmodified, and exactly one
\* RequestLog is handed to telemetry, carrying the request and the response.
C6_ProviderSuccess ==
    \A r \in Reqs :
        ChatOk(r) =>
            /\ pc[r] \in {"respond", "done"}
            /\ respond_args[r].val.status_code = StatusOk
            /\ Returned(r) =>
                  response[r].val = [status |-> 200,
                                     body |-> [json |-> chat_result[r].val.val]]
            /\ Len(tasks[r]) = 1
            /\ tasks[r][1].log.request = Some([json |-> FromValue(payload[r].val).val])
            /\ tasks[r][1].log.response = Some([json |-> chat_result[r].val.val])

C6_Witness ==
    \E r \in Reqs :
        /\ ChatOk(r)
        /\ Returned(r)
        /\ Status(r) = StatusOk
        /\ Body(r).json.usage = Some([prompt_tokens |-> 3, completion_tokens |-> 5,
                                      total_tokens |-> 8])
        /\ tasks[r][1].log.total_tokens = Some(8)

\* C7: when the provider's chat call returns Err(e), the request is answered
\* 500 with the error envelope carrying e's text, and exactly one RequestLog
\* is handed to telemetry, carrying the request, the provider name and the
\* error text, and no response.
C7_ProviderFailure ==
    \A r \in Reqs :
        ChatErr(r) =>
            /\ pc[r] \in {"respond", "done"}
            /\ respond_args[r].val.status_code = StatusInternalServerError
            /\ Returned(r) =>
                  response[r].val = [status |-> 500,
                                     body |-> [error |-> chat_result[r].val.err.text]]
            /\ Len(tasks[r]) = 1
            /\ tasks[r][1].log.request = Some([json |-> FromValue(payload[r].val).val])
            /\ tasks[r][1].log.llm_name = Some(SelectedName(r))
            /\ tasks[r][1].log.error = Some(chat_result[r].val.err.text)
            /\ tasks[r][1].log.response = None

C7_Witness ==
    \E r \in Reqs :
        /\ ChatErr(r)
        /\ Returned(r)
        /\ Status(r) = StatusInternalServerError
        /\ tasks[r][1].log.llm_name = Some("claude")
        /\ tasks[r][1].log.error = Some("upstream rejected the request")

\* The response log_and_respond builds from the arguments it was called with.
DeterminedResponse(r) ==
    HttpResponse(respond_args[r].val.status_code, respond_args[r].val.response,
                 respond_args[r].val.error)

\* States of the telemetry tasks of a request.
TaskStates(r) == { tasks[r][i].state : i \in DOMAIN tasks[r] }

\* C8: whatever the background persistence attempt does (succeeds, fails or
\* never finishes), the status and body returned to the caller are the ones
\* determined when log_and_respond was called: a step of the telemetry task
\* changes neither the handler's position nor the response, and a returned
\* response never changes.
C8_TelemetryNeverChangesResponse ==
    /\ [](\A r \in Reqs : Returned(r) => response[r].val = DeterminedResponse(r))
    /\ [][\A r \in Reqs :
            /\ response[r].some => response'[r] = response[r]
            /\ respond_args[r].some => respond_args'[r] = respond_args[r]
            /\ (TaskStates(r)' # TaskStates(r) /\ tasks[r] # << >>) =>
                  /\ pc'[r] = pc[r]
                  /\ response'[r] = response[r]]_vars

C8_Witness ==
    \E r \in Reqs :
        /\ Returned(r)
        /\ TaskStates(r) = {"failed"}
        /\ stderr[r] # << >>
        /\ Status(r) = StatusOk
        /\ response[r].val = DeterminedResponse(r)

\* The handler task of the request is over: it returned, or it unwound.
HandlerEnded(r) == pc[r] \in {"done", "panicked"}

Count(seq, x) == Cardinality({ i \in DOMAIN seq : seq[i] = x })
Position(seq, x) == CHOOSE i \in DOMAIN seq : seq[i] = x

\* C9 as stated: every request to chat_completion ends in Unauthorized,
\* BadRequest, Success or InternalError, with exactly one RequestLog built and
\* then exactly one response constructed, in that order.
C9_Original ==
    \A r \in Reqs :
        HandlerEnded(r) =>
            /\ response[r].some
            /\ Status(r) \in {401, 400, 200, 500}
            /\ Len(tasks[r]) = 1
            /\ Count(trace[r], "log_build") = 1
            /\ Count(trace[r], "respond") = 1
            /\ Position(trace[r], "log_build") < Position(trace[r], "respond")

\* C10 as stated: a supported selected provider without an entry in the
\* credentials map ends in InternalError: a 500 response and a RequestLog, and
\* no unhandled fault that ends the handler without a response.
C10_Original ==
    \A r \in Reqs :
        (Parsed(r) /\ SelectedName(r) \in {"claude", "openai", "jamba"}
            /\ ~HasCredential(r) /\ pc[r] # "dispatch") =>
            /\ pc[r] \in {"respond", "done"}
            /\ respond_args[r].val.status_code = StatusInternalServerError
            /\ Len(tasks[r]) = 1
            /\ Returned(r) => Status(r) = StatusInternalServerError

\* C11: the response does not wait for the telemetry write. Once the
\* RequestLog was handed to the spawned task the handler can return whatever
\* the task is doing, it never holds a response back while the write is
\* pending, and the response is eventually returned even if the write never
\* completes.
C11_ResponseDoesNotWait ==
    /\ [](\A r \in Reqs : pc[r] = "respond" =>
            (tasks[r] # << >> /\ ENABLED Respond(r)))
    /\ \A r \in Reqs : (pc[r] = "respond") ~> Returned(r)

\* The response was returned while the persistence write is still pending.
C11_Witness ==
    \E r \in Reqs :
        /\ Returned(r)
        /\ response[r].some
        /\ Len(tasks[r]) = 1
        /\ tasks[r][1].state = "pending"

LogsOf(r) == { tasks[r][i].log : i \in DOMAIN tasks[r] }
\* The request is being answered with a success status.
Succeeded(r) == respond_args[r].some /\ respond_args[r].val.status_code = StatusOk
\* A RequestLog on a success carries request and response; on a failure it
\* carries an error and no response.
WellShapedLog(r, l) ==
    IF Succeeded(r)
    THEN l.request.some /\ l.response.some /\ ~l.error.some
    ELSE l.error.some /\ ~l.response.some

\* C13 as stated: on success a RequestLog carries request and response, on
\* failure an error, and request and response are both absent only in the
\* pre-authentication failure case, never once the token resolved to a
\* tenant config.
C13_Original ==
    \A r \in Reqs : \A l \in LogsOf(r) :
        /\ WellShapedLog(r, l)
        /\ (~l.request.some /\ ~l.response.some) => ~StoreResolved(r)

\* C13 (amended): on success a RequestLog carries request and response, on
\* failure an error; request and response are both absent only when the
\* request failed before a request was parsed, that is in the
\* pre-authentication failure case or when the body did not deserialize,
\* never for a request whose body was parsed.
C13_LogRecordShape ==
    \A r \in Reqs : \A l \in LogsOf(r) :
        /\ WellShapedLog(r, l)
        /\ (~l.request.some /\ ~l.response.some) <=> ~Parsed(r)
        /\ ~Parsed(r) => (~StoreResolved(r) \/ ~FromValue(payload[r].val).ok)

C13_Witness ==
    \E r \in Reqs : \E l \in LogsOf(r) :
        /\ Returned(r)
        /\ StoreResolved(r)
        /\ ~FromValue(payload[r].val).ok
        /\ ~l.request.some
        /\ ~l.response.some
        /\ l.error.some
        /\ l.customer_id = "tok_abc"

\* The credential a header presents after its "Bearer " prefix.
PresentedToken(h) == SubSeq(h.val.value, 8, Len(h.val.value))
\* The header is present, uses the bearer scheme and carries a credential.
NonEmptyBearer(h) == BearerForm(h) /\ PresentedToken(h) # ""

\* C14 as stated: the authenticator returns the raw token only for a header
\* that is present, uses the bearer scheme and is not empty; for a header
\* that is absent, not a bearer header or empty (also "Bearer " followed by
\* nothing) the request ends with 401 and the config store is not called.
C14_Original ==
    \A r \in Reqs :
        pc[r] \notin {"idle", "start"} =>
            IF NonEmptyBearer(headers[r].val)
            THEN felafax_token[r] = Some(PresentedToken(headers[r].val))
            ELSE /\ ~felafax_token[r].some
                 /\ store_calls[r] = << >>
                 /\ respond_args[r].val.status_code = StatusUnauthorized
                 /\ Returned(r) => Status(r) = StatusUnauthorized

\* The message of a 401, by whether a token could be extracted.
UnauthorizedMessage(r) ==
    IF felafax_token[r].some
    THEN "Invalid felafax token"
    ELSE "Unauthorized: Missing or invalid token."

\* C15 as stated: every 401 carries the same message, the one a token
\* unknown to the store is answered with, whether the header was missing or
\* malformed, the store call failed, or the token was not found.
C15_Original ==
    \A r \in Reqs :
        (Returned(r) /\ Status(r) = StatusUnauthorized) =>
            Body(r) = [error |-> "Invalid felafax token"]

\* C15 (amended): the message of a 401 does not tell a failed config-store
\* call from a token that was not found (both are answered "Invalid felafax
\* token"); a missing or malformed header is answered 401 with a message of
\* its own ("Unauthorized: Missing or invalid token.").
C15_UnauthorizedMessages ==
    \A r \in Reqs :
        /\ (Returned(r) /\ (StoreFailed(r) \/ StoreNotFound(r))) =>
              response[r].val = [status |-> 401, body |-> [error |-> "Invalid felafax token"]]
        /\ (Returned(r) /\ Status(r) = StatusUnauthorized) =>
              /\ Body(r) = [error |-> UnauthorizedMessage(r)]
              /\ felafax_token[r].some <=> (StoreFailed(r) \/ StoreNotFound(r))

C15_Witness ==
    \E r \in Reqs :
        /\ Returned(r)
        /\ StoreNotFound(r)
        /\ felafax_token[r] = Some("tok_abc")
        /\ Body(r) = [error |-> "Invalid felafax token"]

\* The place of each handler event in the order authenticate, resolve
\* tenant, parse body, dispatch to provider, respond.
StepRank(e) ==
    CASE e = "extract"      -> 1
      [] e = "store_call"   -> 2
      [] e = "store_return" -> 3
      [] e = "parse"        -> 4
      [] e = "match"        -> 5
      [] e = "adapter_new"  -> 6
      [] e = "panic"        -> 6
      [] e = "chat_call"    -> 7
      [] e = "chat_return"  -> 8
      [] e = "log_build"    -> 9
      [] e = "spawn"        -> 10
      [] e = "respond"      -> 11
Happened(r, e) == \E i \in DOMAIN trace[r] : trace[r][i] = e

\* C16: within one request the steps occur strictly in the order
\* authenticate, resolve tenant, parse body, dispatch, respond, each starting
\* only after the previous one succeeded: no config-store call before a token
\* was extracted, no parsing before the tenant resolved (an unknown token
\* with an invalid body yields 401, not 400), no provider call before the
\* body parsed, and the response is constructed after the provider call
\* returned.
C16_StepsInOrder ==
    \A r \in Reqs :
        /\ \A i \in 1..(Len(trace[r]) - 1) :
              StepRank(trace[r][i]) < StepRank(trace[r][i + 1])
        /\ store_calls[r] # << >> =>
              (felafax_token[r].some /\ Happened(r, "extract") /\ Happened(r, "store_call"))
        /\ Happened(r, "parse") => (StoreResolved(r) /\ Happened(r, "store_return"))
        /\ Happened(r, "match") => (Parsed(r) /\ Happened(r, "parse"))
        /\ chat_calls[r] # << >> =>
              (Parsed(r) /\ Happened(r, "match") /\ Happened(r, "chat_call"))
        /\ (response[r].some /\ chat_calls[r] # << >>) =>
              (chat_result[r].some /\ Happened(r, "chat_return") /\ Happened(r, "respond"))
        /\ (Returned(r) /\ felafax_token[r].some /\ ~StoreResolved(r)) =>
              (Status(r) = StatusUnauthorized /\ ~Happened(r, "parse"))

C16_Witness ==
    \E r \in Reqs :
        /\ Returned(r)
        /\ StoreNotFound(r)
        /\ ~FromValue(payload[r].val).ok
        /\ Status(r) = StatusUnauthorized
        /\ trace[r] = <<"extract", "store_call", "store_return", "log_build", "spawn", "respond">>

\* The first place at or after i where sub occurs in s; 0 when there is none.
RECURSIVE IndexFrom(_, _, _)
IndexFrom(s, sub, i) ==
    IF i + Len(sub) - 1 > Len(s) THEN 0
    ELSE IF SubSeq(s, i, i + Len(sub) - 1) = sub THEN i
    ELSE IndexFrom(s, sub, i + 1)

\* The pieces of s between occurrences of sep.
RECURSIVE Split(_, _)
Split(s, sep) ==
    LET at == IndexFrom(s, sep, 1) IN
    IF at = 0 THEN {s}
    ELSE {SubSeq(s, 1, at - 1)} \cup Split(SubSeq(s, at + Len(sep), Len(s)), sep)

\* The provider names the unsupported-provider message lists after "are: ".
ListedProviders ==
    LET at == IndexFrom(MsgInvalidLlm, "are: ", 1) IN
    Split(SubSeq(MsgInvalidLlm, at + Len("are: "), Len(MsgInvalidLlm)), ", ")

RejectedAsUnsupported(r) ==
    /\ respond_args[r].some
    /\ respond_args[r].val.status_code = StatusBadRequest
    /\ respond_args[r].val.error = Some(MsgInvalidLlm)

\* C17 as stated: the provider names listed in the message of the 400 for an
\* unsupported provider are exactly the names the dispatcher accepts: a
\* request whose selected provider is listed is not rejected as unsupported,
\* and a request whose selected provider is accepted has a listed name.
C17_Original ==
    \A r \in Reqs :
        Happened(r, "match") =>
            (SelectedName(r) \in ListedProviders <=> ~RejectedAsUnsupported(r))

\* The non-auth fields of a RequestLog are all unset.
NoNonAuthFields(l) ==
    /\ l.request = None
    /\ l.response = None
    /\ l.llm_name = None
    /\ l.llm_model = None
    /\ l.prompt_tokens = None
    /\ l.completion_tokens = None
    /\ l.total_tokens = None

\* C18: for every request that ends with 401 the RequestLog's customer_id is
\* the empty string when no token could be extracted and is the token exactly
\* as the header presented it when the store did not resolve it, and none of
\* request, response, provider name, model and token counts is populated.
C18_UnauthorizedLog ==
    \A r \in Reqs :
        (Returned(r) /\ Status(r) = StatusUnauthorized) =>
            /\ Len(tasks[r]) = 1
            /\ LET l == tasks[r][1].log IN
               /\ NoNonAuthFields(l)
               /\ ~felafax_token[r].some => l.customer_id = ""
               /\ felafax_token[r].some =>
                     /\ ~StoreResolved(r)
                     /\ headers[r].val.val.value = "Bearer " \o l.customer_id

C18_Witness ==
    \E r \in Reqs :
        /\ Returned(r)
        /\ Status(r) = StatusUnauthorized
        /\ StoreNotFound(r)
        /\ headers[r].val = Some(HeaderValue("Bearer tok_abc", TRUE))
        /\ tasks[r][1].log.customer_id = "tok_abc"
        /\ NoNonAuthFields(tasks[r][1].log)

\* The telemetry tasks of a request that are in the given state.
TasksIn(r, state) == { i \in DOMAIN tasks[r] : tasks[r][i].state = state }
TaskEnded(r, i) == tasks[r][i].state \in {"ok", "failed"}

C20_Original ==
    \A r \in Reqs :
        (chat_result[r].some /\ chat_elapsed[r] > 0) =>
            \A i \in DOMAIN tasks[r] : tasks[r][i].log.total_latency >= chat_elapsed[r]

====
